---- MODULE Spec2Model ----
\* A model of src/pdf_to_json.py: the table classifier, the text segmenter,
\* the metadata extractor and the document assembler.
\*
\* Python str values are TLA+ strings (TLC evaluates Len, SubSeq, Head, Tail
\* and \o on them, a character being a string of length one).  Python None
\* is the empty tuple and a present Optional value v is the 1-tuple <<v>>, so
\* that None and the empty string stay distinct.
EXTENDS Integers, Sequences, FiniteSets, TLC

VARIABLES
    \* classify_table: the table of a call, its result, a second call
    ct_pc, ct_table, ct_result, ct_table2, ct_result2,
    \* detect_sections_from_text: the argument, the split lines, the loop
    \* position and the locals of the function
    sg_pc, sg_text, sg_lines, sg_i,
    current_section, current_subsection, current_text, sg_result,
    \* extract_metadata: the page texts of the document, the page and line
    \* position, the lines of the page at hand and the metadata dict
    md_pc, md_pages, md_p, md_lines, md_i, metadata,
    \* parse_pdf_to_json: the pages of the PDF as the extraction libraries
    \* answer for them, the do_ocr argument, the number of pages done, the
    \* result dict and the document written to output_json
    pj_pc, plpdf_pages, do_ocr, pj_i, result, pj_output

ct_vars == <<ct_pc, ct_table, ct_result, ct_table2, ct_result2>>

sg_vars == <<sg_pc, sg_text, sg_lines, sg_i,
             current_section, current_subsection, current_text, sg_result>>

md_vars == <<md_pc, md_pages, md_p, md_lines, md_i, metadata>>

pj_vars == <<pj_pc, plpdf_pages, do_ocr, pj_i, result, pj_output>>

vars == <<ct_vars, sg_vars, md_vars, pj_vars>>

\* what a step of one component leaves alone
ct_others == <<sg_vars, md_vars, pj_vars>>
sg_others == <<ct_vars, md_vars, pj_vars>>
md_others == <<ct_vars, sg_vars, pj_vars>>
pj_others == <<ct_vars, sg_vars, md_vars>>

None == <<>>
Some(v) == <<v>>

\* ------------------------------------------------------------------ str
Ch(s, i) == SubSeq(s, i, i)

UpperLetters == "ABCDEFGHIJKLMNOPQRSTUVWXYZ"
LowerLetters == "abcdefghijklmnopqrstuvwxyz"

UpperSet == {Ch(UpperLetters, i) : i \in 1..Len(UpperLetters)}
LowerSet == {Ch(LowerLetters, i) : i \in 1..Len(LowerLetters)}

IsUpperCh(c) == c \in UpperSet
IsLowerCh(c) == c \in LowerSet

ToLower ==
    [c \in UpperSet |->
        Ch(LowerLetters, CHOOSE i \in 1..Len(UpperLetters) : Ch(UpperLetters, i) = c)]

ToUpper ==
    [c \in LowerSet |->
        Ch(UpperLetters, CHOOSE i \in 1..Len(LowerLetters) : Ch(LowerLetters, i) = c)]

LowerCh(c) == IF c \in UpperSet THEN ToLower[c] ELSE c

UpperCh(c) == IF c \in LowerSet THEN ToUpper[c] ELSE c

\* str.lower()
RECURSIVE Lower(_)
Lower(s) == IF s = "" THEN "" ELSE LowerCh(Head(s)) \o Lower(Tail(s))

\* str.upper()
RECURSIVE Upper(_)
Upper(s) == IF s = "" THEN "" ELSE UpperCh(Head(s)) \o Upper(Tail(s))

\* sub in s
Contains(s, sub) ==
    \E i \in 1..(Len(s) - Len(sub) + 1) : SubSeq(s, i, i + Len(sub) - 1) = sub

\* any(x in s for x in subs)
AnyIn(subs, s) == \E x \in subs : Contains(s, x)

\* sep.join(parts)
RECURSIVE Join(_, _)
Join(sep, parts) ==
    IF parts = <<>> THEN ""
    ELSE IF Len(parts) = 1 THEN parts[1]
    ELSE parts[1] \o sep \o Join(sep, Tail(parts))

\* the ASCII characters str.strip() removes and \s matches: space, \t, \n,
\* \r, \f, the vertical tab (0x0b) and the separators 0x1c, 0x1d, 0x1e, 0x1f
Whitespace == {" ", "\t", "\n", "\r", "\f", "", "", "", "", ""}

RECURSIVE LStrip(_)
LStrip(s) == IF s # "" /\ Head(s) \in Whitespace THEN LStrip(Tail(s)) ELSE s

RECURSIVE RStrip(_)
RStrip(s) ==
    IF s # "" /\ Ch(s, Len(s)) \in Whitespace
    THEN RStrip(SubSeq(s, 1, Len(s) - 1))
    ELSE s

\* str.strip()
Strip(s) == LStrip(RStrip(s))

\* the ASCII line boundaries of str.splitlines(): \n, \r\n, \r, \f, the
\* vertical tab (0x0b) and the separators 0x1c, 0x1d, 0x1e
LineBreaks == {"\n", "\r", "\f", "", "", "", ""}

\* str.splitlines()
RECURSIVE SplitLines(_)
SplitLines(s) ==
    IF s = "" THEN <<>>
    ELSE IF \A i \in 1..Len(s) : Ch(s, i) \notin LineBreaks THEN <<s>>
    ELSE LET k == CHOOSE i \in 1..Len(s) :
                     /\ Ch(s, i) \in LineBreaks
                     /\ \A j \in 1..(i - 1) : Ch(s, j) \notin LineBreaks
             w == IF Ch(s, k) = "\r" /\ k < Len(s) /\ Ch(s, k + 1) = "\n" THEN 2 ELSE 1
         IN  <<SubSeq(s, 1, k - 1)>> \o SplitLines(SubSeq(s, k + w, Len(s)))

\* str.split(sep) for a separator of one character
RECURSIVE Split(_, _)
Split(s, sep) ==
    IF \A i \in 1..Len(s) : Ch(s, i) # sep THEN <<s>>
    ELSE LET k == CHOOSE i \in 1..Len(s) :
                     Ch(s, i) = sep /\ \A j \in 1..(i - 1) : Ch(s, j) # sep
         IN  <<SubSeq(s, 1, k - 1)>> \o Split(SubSeq(s, k + 1, Len(s)), sep)

\* str.replace(c, "") for one character c
RECURSIVE Remove(_, _)
Remove(s, c) ==
    IF s = "" THEN ""
    ELSE (IF Head(s) = c THEN "" ELSE Head(s)) \o Remove(Tail(s), c)

\* [x for x in xs if x]: the non-empty strings of a list
RECURSIVE NonEmpty(_)
NonEmpty(xs) ==
    IF xs = <<>> THEN <<>>
    ELSE (IF xs[1] = "" THEN <<>> ELSE <<xs[1]>>) \o NonEmpty(Tail(xs))

\* str.isupper(): some cased character, and no lower-case one
IsUpper(s) ==
    /\ \E i \in 1..Len(s) : IsUpperCh(Ch(s, i))
    /\ \A i \in 1..Len(s) : ~IsLowerCh(Ch(s, i))

IsLetter(c) == IsUpperCh(c) \/ IsLowerCh(c)

\* clean_text
clean_text(s) ==
    IF s = "" THEN ""
    ELSE LET ls == SplitLines(s)
         IN  Join(" ", NonEmpty([i \in 1..Len(ls) |-> Strip(ls[i])]))

\* ------------------------------------------------------- classify_table
\* header_str built without lower-casing the cells
HeaderStrNoLower(table) == Join(" ", table[1])

\* header_str of classify_table: every cell of row 0 lower-cased, joined by " "
HeaderStr(table) ==
    Join(" ", [j \in 1..Len(table[1]) |-> Lower(table[1][j])])

RuleSchemePerformance(header_str) ==
    \/ Contains(header_str, "scheme performance")
    \/ (Contains(header_str, "performance") /\ Contains(header_str, "scheme"))
    \/ Contains(header_str, "ptp")
    \/ Contains(header_str, "last 1 year")
    \/ Contains(header_str, "since inception")

RuleSip(header_str) ==
    Contains(header_str, "sip") \/ Contains(header_str, "if you had invested")

\* a holdings test that does not look for "sector"
RuleHoldingsNoSector(header_str) ==
    AnyIn({"company", "issuer", "instrument", "name", "%", "weight", "net assets"},
          header_str)

\* line 188
RuleHoldings(header_str) ==
    AnyIn({"company", "issuer", "instrument", "name", "sector", "%", "weight",
           "net assets"}, header_str)

RuleDebt(header_str) ==
    Contains(header_str, "debt") \/ Contains(header_str, "credit rating")

RuleAllocation(header_str) ==
    AnyIn({"sector allocation", "group allocation", "market capitalisation",
           "allocation"}, header_str)

RuleRisk(header_str) ==
    AnyIn({"riskometer", "risk profile", "std. dev", "beta", "sharpe", "treynor",
           "risk"}, header_str)

RuleMacro(header_str) ==
    AnyIn({"macro", "economic", "indicators", "gdp", "inflation"}, header_str)

\* the if-chain of classify_table with the allocation test before the holdings test
ClassifyHeaderAllocationFirst(header_str) ==
    IF RuleSchemePerformance(header_str)
    THEN <<Some("scheme_performance"), Some("Performance Data")>>
    ELSE IF RuleSip(header_str)
    THEN <<Some("scheme_performance"), Some("SIP Performance")>>
    ELSE IF RuleAllocation(header_str)
    THEN <<Some("allocation"), Some("Allocation Data")>>
    ELSE IF RuleHoldings(header_str)
    THEN IF RuleDebt(header_str)
         THEN <<Some("debt_portfolio"), Some("Debt Holdings")>>
         ELSE <<Some("portfolio"), Some("Holdings")>>
    ELSE IF RuleRisk(header_str)
    THEN <<Some("risk"), Some("Risk Metrics")>>
    ELSE IF RuleMacro(header_str)
    THEN <<Some("macro"), Some("Economic Indicators")>>
    ELSE <<None, None>>

\* the if-chain of classify_table with the risk test before the allocation test
ClassifyHeaderRiskFirst(header_str) ==
    IF RuleSchemePerformance(header_str)
    THEN <<Some("scheme_performance"), Some("Performance Data")>>
    ELSE IF RuleSip(header_str)
    THEN <<Some("scheme_performance"), Some("SIP Performance")>>
    ELSE IF RuleHoldings(header_str)
    THEN IF RuleDebt(header_str)
         THEN <<Some("debt_portfolio"), Some("Debt Holdings")>>
         ELSE <<Some("portfolio"), Some("Holdings")>>
    ELSE IF RuleRisk(header_str)
    THEN <<Some("risk"), Some("Risk Metrics")>>
    ELSE IF RuleAllocation(header_str)
    THEN <<Some("allocation"), Some("Allocation Data")>>
    ELSE IF RuleMacro(header_str)
    THEN <<Some("macro"), Some("Economic Indicators")>>
    ELSE <<None, None>>

\* the if-chain of classify_table, lines 179-206
ClassifyHeader(header_str) ==
    IF RuleSchemePerformance(header_str)
    THEN <<Some("scheme_performance"), Some("Performance Data")>>
    ELSE IF RuleSip(header_str)
    THEN <<Some("scheme_performance"), Some("SIP Performance")>>
    ELSE IF RuleHoldings(header_str)
    THEN IF RuleDebt(header_str)
         THEN <<Some("debt_portfolio"), Some("Debt Holdings")>>
         ELSE <<Some("portfolio"), Some("Holdings")>>
    ELSE IF RuleAllocation(header_str)
    THEN <<Some("allocation"), Some("Allocation Data")>>
    ELSE IF RuleRisk(header_str)
    THEN <<Some("risk"), Some("Risk Metrics")>>
    ELSE IF RuleMacro(header_str)
    THEN <<Some("macro"), Some("Economic Indicators")>>
    ELSE <<None, None>>

classify_table(table) ==
    IF Len(table) < 1 THEN <<None, None>>
    ELSE ClassifyHeader(HeaderStr(table))

\* ---------------------------------------------- inputs of the classifier
MaxCols == 2
MaxBodyRows == 2

HeaderCells ==
    {"Company", "% to Net Assets", "Scheme", "Performance", "Last 1 Year",
     "Since Inception", "SIP", "Sector Allocation", "Allocation", "Risk",
     "Credit Rating", "GDP", "Sr", "Unrelated"}

ScenarioHeaders ==
    {<<"Company", "% to Net Assets">>,
     <<"Scheme", "Last 1 Year", "Since Inception">>,
     <<"Sr", "Unrelated", "Stuff">>}

Headers ==
    ScenarioHeaders \cup UNION {[1..n -> HeaderCells] : n \in 1..MaxCols}

BodyRows == {<<"Risk Allocation", "12.5">>, <<"Since Inception", "% Weight">>}

Bodies == UNION {[1..n -> BodyRows] : n \in 0..MaxBodyRows}

InitBodies == {<<>>, <<<<"Since Inception", "% Weight">>, <<"Risk Allocation", "12.5">>>>}

\* the tables that differ from t in the letter case of the header row and in
\* the rows after it
Variants(t) ==
    {<<h>> \o b : h \in {t[1],
                         [j \in 1..Len(t[1]) |-> Upper(t[1][j])],
                         [j \in 1..Len(t[1]) |-> Lower(t[1][j])]},
                  b \in Bodies}

ClassifyInit ==
    /\ ct_pc = "start"
    /\ ct_table \in {<<>>} \cup {<<h>> \o b : h \in Headers, b \in InitBodies}
    /\ ct_result = <<None, None>>
    /\ ct_table2 = <<>>
    /\ ct_result2 = <<None, None>>

\* one call classify_table(ct_table)
ClassifyTable ==
    /\ ct_pc = "start"
    /\ ct_result' = classify_table(ct_table)
    /\ ct_pc' = "classified"
    /\ UNCHANGED <<ct_table, ct_table2, ct_result2>>
    /\ UNCHANGED ct_others

\* a second call, on a table with the same header row up to letter case
ClassifyVariant ==
    /\ ct_pc = "classified"
    /\ ct_table # <<>>
    /\ \E t \in Variants(ct_table) :
          /\ ct_table2' = t
          /\ ct_result2' = classify_table(t)
    /\ ct_pc' = "compared"
    /\ UNCHANGED <<ct_table, ct_result>>
    /\ UNCHANGED ct_others

ClassifyNext == ClassifyTable \/ ClassifyVariant

\* ------------------------------------------------- claims: classify_table
\* the lower-cased, space-joined header row of a non-empty table
C_HeaderOf(t) == Join(" ", [j \in 1..Len(t[1]) |-> Lower(t[1][j])])

C1_Rule(k, hs) ==
    CASE k = 1 -> \/ Contains(hs, "scheme performance")
                  \/ (Contains(hs, "performance") /\ Contains(hs, "scheme"))
                  \/ Contains(hs, "ptp") \/ Contains(hs, "last 1 year")
                  \/ Contains(hs, "since inception")
      [] k = 2 -> Contains(hs, "sip") \/ Contains(hs, "if you had invested")
      [] k = 3 -> \E x \in {"company", "issuer", "instrument", "name", "sector",
                            "%", "weight", "net assets"} : Contains(hs, x)
      [] k = 4 -> \E x \in {"sector allocation", "group allocation",
                            "market capitalisation", "allocation"} : Contains(hs, x)
      [] k = 5 -> \E x \in {"riskometer", "risk profile", "std. dev", "beta",
                            "sharpe", "treynor", "risk"} : Contains(hs, x)
      [] k = 6 -> \E x \in {"macro", "economic", "indicators", "gdp",
                            "inflation"} : Contains(hs, x)
      [] OTHER -> TRUE

C1_Outcome(k, hs) ==
    CASE k = 1 -> <<Some("scheme_performance"), Some("Performance Data")>>
      [] k = 2 -> <<Some("scheme_performance"), Some("SIP Performance")>>
      [] k = 3 -> IF Contains(hs, "debt") \/ Contains(hs, "credit rating")
                  THEN <<Some("debt_portfolio"), Some("Debt Holdings")>>
                  ELSE <<Some("portfolio"), Some("Holdings")>>
      [] k = 4 -> <<Some("allocation"), Some("Allocation Data")>>
      [] k = 5 -> <<Some("risk"), Some("Risk Metrics")>>
      [] k = 6 -> <<Some("macro"), Some("Economic Indicators")>>
      [] OTHER -> <<None, None>>

C1_FirstRule(hs) ==
    CHOOSE k \in 1..7 : C1_Rule(k, hs) /\ \A j \in 1..(k - 1) : ~C1_Rule(j, hs)

C1_Expected(t) == C1_Outcome(C1_FirstRule(C_HeaderOf(t)), C_HeaderOf(t))

\* C1: for every non-empty table classify_table returns the (category, label)
\* of the first of the rules 1..7, tried in that order, that matches the
\* lower-cased, space-joined header row; the three headers of the
\* classification scenario give (portfolio, Holdings), (scheme_performance,
\* Performance Data) and (null, null).
C1_FirstMatchWins ==
    /\ (ct_pc # "start" /\ ct_table # <<>>) =>
          /\ ct_result = C1_Expected(ct_table)
          /\ (ct_table[1] = <<"Company", "% to Net Assets">>
                => ct_result = <<Some("portfolio"), Some("Holdings")>>)
          /\ (ct_table[1] = <<"Scheme", "Last 1 Year", "Since Inception">>
                => ct_result = <<Some("scheme_performance"), Some("Performance Data")>>)
          /\ (ct_table[1] = <<"Sr", "Unrelated", "Stuff">>
                => ct_result = <<None, None>>)
    /\ ct_pc = "compared" => ct_result2 = C1_Expected(ct_table2)

\* a header that matches rules 3, 4 and 5 at once has been classified by rule 3
C1_Witness ==
    /\ ct_pc = "classified"
    /\ ct_table # <<>>
    /\ ct_table[1] = <<"Sector Allocation", "Risk">>
    /\ ct_result = <<Some("portfolio"), Some("Holdings")>>

C2_Pre(t) ==
    /\ t # <<>>
    /\ Contains(C_HeaderOf(t), "risk")
    /\ Contains(C_HeaderOf(t), "allocation")

\* C2 as stated: every table whose header row contains both "risk" and
\* "allocation" is classified allocation.
C2_Original ==
    (ct_pc # "start" /\ C2_Pre(ct_table)) => ct_result[1] = Some("allocation")

\* C2 as amended: a table whose header row contains both "risk" and
\* "allocation" is never classified risk, and it is classified allocation
\* whenever its header matches none of the rules 1, 2 and 3.
C2_AllocationBeforeRisk ==
    /\ (ct_pc # "start" /\ C2_Pre(ct_table)) =>
          /\ ct_result[1] # Some("risk")
          /\ (\A k \in 1..3 : ~C1_Rule(k, C_HeaderOf(ct_table)))
                => ct_result = <<Some("allocation"), Some("Allocation Data")>>
    /\ (ct_pc = "compared" /\ C2_Pre(ct_table2)) =>
          /\ ct_result2[1] # Some("risk")
          /\ (\A k \in 1..3 : ~C1_Rule(k, C_HeaderOf(ct_table2)))
                => ct_result2 = <<Some("allocation"), Some("Allocation Data")>>

C2_Witness ==
    /\ ct_pc = "classified"
    /\ ct_table # <<>>
    /\ ct_table[1] = <<"Risk", "Allocation">>
    /\ ct_result = <<Some("allocation"), Some("Allocation Data")>>

C3_SameHeaderUpToCase(t, u) ==
    /\ Len(t[1]) = Len(u[1])
    /\ \A j \in 1..Len(t[1]) : Lower(t[1][j]) = Lower(u[1][j])

\* C3: two tables whose header rows are equal up to letter case get the same
\* (category, label), whatever their other rows are and in whatever order.
C3_HeaderOnly ==
    (ct_pc = "compared" /\ C3_SameHeaderUpToCase(ct_table, ct_table2))
        => ct_result2 = ct_result

\* a classified table and a second one with the header in another case and the
\* two body rows in the other order
C3_Witness ==
    /\ ct_pc = "compared"
    /\ Len(ct_table) = 3 /\ Len(ct_table2) = 3
    /\ ct_table2[1] # ct_table[1]
    /\ C3_SameHeaderUpToCase(ct_table, ct_table2)
    /\ ct_table2[2] = ct_table[3] /\ ct_table2[3] = ct_table[2]
    /\ ct_table[2] # ct_table[3]
    /\ ct_result[1] = Some("risk")
    /\ ct_result2 = ct_result

C17_HoldingsWords ==
    {"company", "issuer", "instrument", "name", "sector", "%", "weight", "net assets"}

C17_Shadowed(t, res) ==
    /\ (/\ Contains(C_HeaderOf(t), "sector allocation")
        /\ ~C1_Rule(1, C_HeaderOf(t))
        /\ ~C1_Rule(2, C_HeaderOf(t)))
          => res[1] \in {Some("portfolio"), Some("debt_portfolio")}
    /\ res[1] = Some("allocation")
          => \A w \in C17_HoldingsWords : ~Contains(C_HeaderOf(t), w)

\* C17: a header that contains "sector allocation" and matches neither rule 1
\* nor rule 2 is classified portfolio or debt_portfolio, never allocation;
\* allocation is returned only for headers that contain none of company,
\* issuer, instrument, name, sector, %, weight, net assets.
C17_SectorShadowsAllocation ==
    /\ (ct_pc # "start" /\ ct_table # <<>>) => C17_Shadowed(ct_table, ct_result)
    /\ ct_pc = "compared" => C17_Shadowed(ct_table2, ct_result2)

\* a "sector allocation" header with a debt word has been classified
\* debt_portfolio
C17_Witness ==
    /\ ct_pc = "classified"
    /\ ct_table # <<>>
    /\ ct_table[1] = <<"Sector Allocation", "Credit Rating">>
    /\ ct_result = <<Some("debt_portfolio"), Some("Debt Holdings")>>


\* ------------------------------------------- detect_sections_from_text
HeadingMaxLen == 120

\* re.match(r'^#\s+[A-Z]', line)
MatchesMarkdownHeading(line) ==
    /\ Len(line) >= 3
    /\ Ch(line, 1) = "#"
    /\ \E k \in 2..(Len(line) - 1) :
          /\ \A j \in 2..k : Ch(line, j) \in Whitespace
          /\ IsUpperCh(Ch(line, k + 1))

\* the condition of line 125
IsMainHeading(line) ==
    (IsUpper(line) /\ Len(line) < HeadingMaxLen) \/ MatchesMarkdownHeading(line)

\* re.match(r'^[A-Za-z][A-Za-z\s]+:', line) and len(line) < 120, line 138
MatchesSubsection(line) ==
    /\ Len(line) >= 3
    /\ IsLetter(Ch(line, 1))
    /\ \E k \in 2..(Len(line) - 1) :
          /\ \A j \in 2..k : IsLetter(Ch(line, j)) \/ Ch(line, j) \in Whitespace
          /\ Ch(line, k + 1) = ":"
    /\ Len(line) < HeadingMaxLen

\* truth value of an Optional[str] in a condition
Truthy(opt) == opt # None /\ opt[1] # ""

\* the locals of one call, as a record
SegState(sec, sub, txt, res) ==
    [current_section |-> sec, current_subsection |-> sub,
     current_text |-> txt, result |-> res]

\* a flush condition that forgets the section test
ShouldFlushAnySection(st) == st.current_text # <<>>

\* `if current_section and current_text`, lines 126, 139 and 152
ShouldFlush(st) == Truthy(st.current_section) /\ st.current_text # <<>>

\* the Paragraph Record appended at lines 127-132, 140-145 and 153-158
Paragraph(st) ==
    [type |-> "paragraph",
     section |-> st.current_section,
     sub_section |-> st.current_subsection,
     text |-> clean_text(Join("\n", st.current_text))]

\* lines 126-133 and 139-146: append the record and empty the buffer
FlushBuffer(st) ==
    IF ShouldFlush(st)
    THEN [st EXCEPT !.result = Append(@, Paragraph(st)), !.current_text = <<>>]
    ELSE st

\* lines 125-135
OnMainHeading(st, line) ==
    [FlushBuffer(st) EXCEPT !.current_section = Some(Strip(Remove(line, "#"))),
                            !.current_subsection = None]

\* a subsection branch that stores the heading before it flushes
OnSubsectionStoreFirst(st, line) ==
    FlushBuffer([st EXCEPT !.current_subsection = Some(line)])

\* lines 138-147
OnSubsection(st, line) ==
    [FlushBuffer(st) EXCEPT !.current_subsection = Some(line)]

\* lines 149-150
OnBodyLine(st, line) == [st EXCEPT !.current_text = Append(@, line)]

\* lines 152-158: the last flush leaves the buffer as it is
OnEnd(st) ==
    IF ShouldFlush(st) THEN [st EXCEPT !.result = Append(@, Paragraph(st))] ELSE st

\* line 113: lines = [ln.rstrip() for ln in text.splitlines()]
TextLines(text) ==
    LET ls == SplitLines(text) IN [i \in 1..Len(ls) |-> RStrip(ls[i])]

\* the branch of the loop body that a stripped line takes, lines 121-150
LineKind(line) ==
    IF line = "" THEN "blank"
    ELSE IF IsMainHeading(line) THEN "main"
    ELSE IF MatchesSubsection(line) THEN "sub"
    ELSE "body"

\* one iteration of the loop of line 119 on the raw list element
OnLine(st, raw) ==
    LET line == Strip(raw)
    IN  CASE LineKind(line) = "blank" -> st
          [] LineKind(line) = "main" -> OnMainHeading(st, line)
          [] LineKind(line) = "sub" -> OnSubsection(st, line)
          [] OTHER -> OnBodyLine(st, line)

RECURSIVE SegFold(_, _)
SegFold(st, ls) == IF ls = <<>> THEN st ELSE SegFold(OnLine(st, ls[1]), Tail(ls))

\* the whole function, as parse_pdf_to_json calls it
detect_sections_from_text(text) ==
    IF text = "" THEN <<>>
    ELSE OnEnd(SegFold(SegState(None, None, <<>>, <<>>), TextLines(text))).result

\* ----------------------------------------------- inputs of the segmenter
MaxLines == 4

TextLineChoices ==
    {"SUMMARY", "Alpha line", "Benchmark: X", "Beta line", "#  Overview ",
     "NOTE:", "  "}

ScenarioTexts ==
    {"hello\nworld", "NOTE: #1\nAlpha line", "SUMMARY\nAlpha line\nNOTE: #1\nBeta line",
     \* a vertical tab (0x0b) as line boundary, unit separators (0x1f) as
     \* whitespace around a line and inside a markdown heading
     "SUMMARYAlpha line", "# Xy\nbody\n\nBenchmark: X\nmore"}

Texts ==
    ScenarioTexts
      \cup {Join("\n", ls) : ls \in UNION {[1..n -> TextLineChoices] : n \in 0..MaxLines}}

SegLocals == SegState(current_section, current_subsection, current_text, sg_result)

SegAssign(st) ==
    /\ current_section' = st.current_section
    /\ current_subsection' = st.current_subsection
    /\ current_text' = st.current_text
    /\ sg_result' = st.result

SegIdle ==
    /\ sg_pc = "idle" /\ sg_text = "" /\ sg_lines = <<>> /\ sg_i = 0
    /\ current_section = None /\ current_subsection = None
    /\ current_text = <<>> /\ sg_result = <<>>

SegInit ==
    /\ sg_pc = "call"
    /\ sg_text \in Texts
    /\ sg_lines = <<>> /\ sg_i = 0
    /\ current_section = None /\ current_subsection = None
    /\ current_text = <<>> /\ sg_result = <<>>

\* lines 110-111: an empty text returns [] at once
SegReturnEmpty ==
    /\ sg_pc = "call" /\ sg_text = ""
    /\ sg_pc' = "done"
    /\ UNCHANGED <<sg_text, sg_lines, sg_i, current_section, current_subsection,
                   current_text, sg_result>>
    /\ UNCHANGED sg_others

\* lines 113-117
SegSplit ==
    /\ sg_pc = "call" /\ sg_text # ""
    /\ sg_lines' = TextLines(sg_text)
    /\ sg_i' = 1
    /\ sg_pc' = "loop"
    /\ UNCHANGED <<sg_text, current_section, current_subsection, current_text,
                   sg_result>>
    /\ UNCHANGED sg_others

SegAtLine == sg_pc = "loop" /\ sg_i <= Len(sg_lines)

SegAdvance ==
    /\ sg_i' = sg_i + 1
    /\ UNCHANGED <<sg_pc, sg_text, sg_lines>>
    /\ UNCHANGED sg_others

\* lines 120-122
SegBlankLine ==
    /\ SegAtLine /\ LineKind(Strip(sg_lines[sg_i])) = "blank"
    /\ SegAdvance
    /\ UNCHANGED <<current_section, current_subsection, current_text, sg_result>>

\* lines 125-135
SegMainHeading ==
    /\ SegAtLine /\ LineKind(Strip(sg_lines[sg_i])) = "main"
    /\ SegAssign(OnMainHeading(SegLocals, Strip(sg_lines[sg_i])))
    /\ SegAdvance

\* lines 138-147
SegSubsection ==
    /\ SegAtLine /\ LineKind(Strip(sg_lines[sg_i])) = "sub"
    /\ SegAssign(OnSubsection(SegLocals, Strip(sg_lines[sg_i])))
    /\ SegAdvance

\* lines 149-150
SegBodyLine ==
    /\ SegAtLine /\ LineKind(Strip(sg_lines[sg_i])) = "body"
    /\ SegAssign(OnBodyLine(SegLocals, Strip(sg_lines[sg_i])))
    /\ SegAdvance

\* lines 152-160
SegReturn ==
    /\ sg_pc = "loop" /\ sg_i > Len(sg_lines)
    /\ SegAssign(OnEnd(SegLocals))
    /\ sg_pc' = "done"
    /\ UNCHANGED <<sg_text, sg_lines, sg_i>>
    /\ UNCHANGED sg_others

SegNext ==
    \/ SegReturnEmpty \/ SegSplit \/ SegBlankLine \/ SegMainHeading
    \/ SegSubsection \/ SegBodyLine \/ SegReturn

\* --------------------------------- claims: detect_sections_from_text
\* the stripped lines of the input text
C_Lines(text) ==
    LET ls == SplitLines(text) IN [i \in 1..Len(ls) |-> Strip(ls[i])]

C_IsMain(line) ==
    line # "" /\ ((IsUpper(line) /\ Len(line) < 120) \/ MatchesMarkdownHeading(line))

C_IsSub(line) == line # "" /\ ~C_IsMain(line) /\ MatchesSubsection(line)

C_IsBody(line) == line # "" /\ ~C_IsMain(line) /\ ~MatchesSubsection(line)

\* the positions of the body lines that stand before the first main heading
C5_LeadingBody(ls) ==
    {j \in 1..Len(ls) : C_IsBody(ls[j]) /\ \A i \in 1..j : ~C_IsMain(ls[i])}

\* C5: a body line that occurs before the first detected heading is discarded:
\* its text (when no body line after that heading repeats it) is in the text
\* of no emitted Paragraph Record, also when a main heading and further body
\* lines follow.
C5_LeadingTextDiscarded ==
    sg_pc = "done" =>
        LET ls == C_Lines(sg_text)
        IN  \A j \in C5_LeadingBody(ls) :
                (\A i \in (1..Len(ls)) \ C5_LeadingBody(ls) : ls[i] # ls[j])
                    => \A r \in 1..Len(sg_result) : ~Contains(sg_result[r].text, ls[j])

\* C6: a text in which no line is a main heading yields no Paragraph Record,
\* also when it holds subsection-heading lines; "hello\nworld" gives [].
C6_NoHeadingNoRecords ==
    /\ (\A i \in 1..Len(C_Lines(sg_text)) : ~C_IsMain(C_Lines(sg_text)[i]))
          => sg_result = <<>>
    /\ (sg_pc = "done" /\ sg_text = "hello\nworld") => sg_result = <<>>

\* a finished call on a subsection heading followed by a body line
C6_Witness ==
    /\ sg_pc = "done"
    /\ sg_text = "Benchmark: X\nAlpha line"
    /\ current_subsection = Some("Benchmark: X")
    /\ current_text = <<"Alpha line">>
    /\ sg_result = <<>>

C7_Record(sec, sub, txt) ==
    [type |-> "paragraph", section |-> sec, sub_section |-> sub, text |-> txt]

\* a subsection heading met under a current section with a pending buffer
C7_AtSubsection ==
    /\ sg_pc = "loop" /\ sg_i <= Len(sg_lines)
    /\ C_IsSub(Strip(sg_lines[sg_i]))
    /\ current_section # None /\ current_text # <<>>

C7_Scenario == "SUMMARY\nAlpha line\nBenchmark: X\nBeta line"

C7_ScenarioResult ==
    <<C7_Record(Some("SUMMARY"), None, "Alpha line"),
      C7_Record(Some("SUMMARY"), Some("Benchmark: X"), "Beta line")>>

\* C7: a subsection heading met while a section is current and the buffer is
\* non-empty emits the buffer as one record with the section and sub_section
\* current before the line and makes the full line the sub_section; a body
\* line keeps the sub_section and joins the buffer; every emitted record
\* carries the section, sub_section and buffer current when it is emitted;
\* the scenario text yields exactly its two records.
C7_SubsectionFlush ==
    /\ [][C7_AtSubsection =>
            /\ sg_result' = Append(sg_result,
                   C7_Record(current_section, current_subsection,
                             Join(" ", current_text)))
            /\ current_subsection' = Some(Strip(sg_lines[sg_i]))
            /\ current_section' = current_section
            /\ current_text' = <<>>]_vars
    /\ [][(sg_pc = "loop" /\ sg_i <= Len(sg_lines) /\ C_IsBody(Strip(sg_lines[sg_i])))
            => /\ current_subsection' = current_subsection
               /\ current_section' = current_section
               /\ current_text' = Append(current_text, Strip(sg_lines[sg_i]))
               /\ sg_result' = sg_result]_vars
    /\ [][sg_result' # sg_result
            => sg_result' = Append(sg_result,
                   C7_Record(current_section, current_subsection,
                             Join(" ", current_text)))]_vars
    /\ []((sg_pc = "done" /\ sg_text = C7_Scenario) => sg_result = C7_ScenarioResult)

C7_Witness ==
    /\ sg_pc = "done"
    /\ sg_text = C7_Scenario
    /\ sg_result = C7_ScenarioResult


\* a line that matches the main-heading and the subsection-heading pattern
C13_MatchesBoth(line) == C_IsMain(line) /\ MatchesSubsection(line)

\* the loop is about to read a line that matches both patterns
C13_AtBoth ==
    /\ sg_pc = "loop" /\ sg_i <= Len(sg_lines)
    /\ C13_MatchesBoth(Strip(sg_lines[sg_i]))

\* the line is handled by the main-heading branch: section and subsection
\* are set as that branch sets them, for whatever text the section gets
C13_TieBreak ==
    [][C13_AtBoth =>
          /\ current_section' = Some(Strip(Remove(Strip(sg_lines[sg_i]), "#")))
          /\ current_subsection' = None]_vars

\* no line matching both patterns is the sub_section of the state or of a
\* record
C13_NeverSubsection ==
    \A i \in 1..Len(C_Lines(sg_text)) :
        C13_MatchesBoth(C_Lines(sg_text)[i]) =>
            /\ current_subsection # Some(C_Lines(sg_text)[i])
            /\ \A r \in 1..Len(sg_result) :
                  sg_result[r].sub_section # Some(C_Lines(sg_text)[i])

\* C13: a line that matches both the main-heading and the subsection-heading
\* pattern is handled as a main heading: it sets current_section to the line
\* and resets current_subsection to null, and is never stored as a
\* sub_section.
C13_BothPatternsMainHeading ==
    /\ [][C13_AtBoth =>
             /\ current_section' = Some(Strip(sg_lines[sg_i]))
             /\ current_subsection' = None]_vars
    /\ []C13_NeverSubsection


\* a heading line, main or subsection
C18_IsHeading(line) == C_IsMain(line) \/ C_IsSub(line)

\* the position of the last non-blank line before position i, 0 when none
C18_Previous(ls, i) ==
    LET before == {j \in 1..(i - 1) : Strip(ls[j]) # ""}
    IN  IF before = {} THEN 0 ELSE CHOOSE j \in before : \A n \in before : n <= j

\* the loop is about to read a heading whose nearest non-blank line before it
\* is a heading too
C18_AtSecondHeading ==
    /\ sg_pc = "loop" /\ sg_i <= Len(sg_lines)
    /\ C18_IsHeading(Strip(sg_lines[sg_i]))
    /\ C18_Previous(sg_lines, sg_i) # 0
    /\ C18_IsHeading(Strip(sg_lines[C18_Previous(sg_lines, sg_i)]))

\* every record has a non-null, non-empty section and a non-empty text
C18_RecordsWellFormed ==
    \A r \in 1..Len(sg_result) :
        /\ sg_result[r].section # None
        /\ sg_result[r].section[1] # ""
        /\ sg_result[r].text # ""

\* C18: every Paragraph Record emitted, after any sequence of input lines,
\* has a non-null, non-empty section and a non-empty text; a heading that
\* follows a heading with no body line between them emits no record.
C18_NoEmptyRecords ==
    /\ []C18_RecordsWellFormed
    /\ [][C18_AtSecondHeading => sg_result' = sg_result]_vars


\* ------------------------------------------------------ extract_metadata
NA == "N/A"

Digits == {"0", "1", "2", "3", "4", "5", "6", "7", "8", "9"}

IsDigit(s, i) == i >= 1 /\ i <= Len(s) /\ Ch(s, i) \in Digits

IsSpace(s, i) == i >= 1 /\ i <= Len(s) /\ Ch(s, i) \in Whitespace

\* s[i:].startswith(p)
StartsWithAt(s, i, p) ==
    i >= 1 /\ i + Len(p) - 1 <= Len(s) /\ SubSeq(s, i, i + Len(p) - 1) = p

\* the same under re.IGNORECASE, p being in lower case
StartsWithAtNoCase(s, i, p) ==
    i >= 1 /\ i + Len(p) - 1 <= Len(s) /\ Lower(SubSeq(s, i, i + Len(p) - 1)) = p

\* the first position from i on that is not whitespace (greedy \s*)
RECURSIVE SkipSpace(_, _)
SkipSpace(s, i) == IF IsSpace(s, i) THEN SkipSpace(s, i + 1) ELSE i

\* the first position from i on that is not a digit
RECURSIVE SkipDigits(_, _)
SkipDigits(s, i) == IF IsDigit(s, i) THEN SkipDigits(s, i + 1) ELSE i

\* the first position from i on that is not a letter (greedy [a-z]*, IGNORECASE)
RECURSIVE SkipLetters(_, _)
SkipLetters(s, i) ==
    IF i <= Len(s) /\ IsLetter(Ch(s, i)) THEN SkipLetters(s, i + 1) ELSE i

\* the first position from i on that is outside [\d,\.]
RECURSIVE SkipNumber(_, _)
SkipNumber(s, i) ==
    IF i <= Len(s) /\ (Ch(s, i) \in Digits \/ Ch(s, i) \in {",", "."})
    THEN SkipNumber(s, i + 1)
    ELSE i

\* re.match(r'^[A-Z][A-Z\s]+(FUND|SCHEME)', line), line 230
MatchesFundName(line) ==
    /\ Len(line) >= 1 /\ IsUpperCh(Ch(line, 1))
    /\ \E k \in 2..Len(line) :
          /\ \A j \in 2..k : IsUpperCh(Ch(line, j)) \/ Ch(line, j) \in Whitespace
          /\ (StartsWithAt(line, k + 1, "FUND") \/ StartsWithAt(line, k + 1, "SCHEME"))

\* the units of the pattern of line 234, in the order of the alternation
AumUnits == <<"cr", "crore", "lakh", "million", "billion">>

\* the position after the match of [\d,\.]+\s*(cr|crore|lakh|million|billion)
\* that starts at i, or 0 when there is none
AumMatchEnd(s, i) ==
    LET n == SkipNumber(s, i)
        u == SkipSpace(s, n)
        fits == {x \in 1..Len(AumUnits) : StartsWithAtNoCase(s, u, AumUnits[x])}
    IN  IF n = i \/ fits = {} THEN 0
        ELSE u + Len(AumUnits[CHOOSE x \in fits : \A y \in fits : x <= y])

\* re.search(<a pattern>, line).group(1) for a pattern whose match from
\* position i ends before MatchEnd(line, i): the leftmost match, or None
SearchFirst(line, MatchEnd(_, _)) ==
    LET starts == {i \in 1..Len(line) : MatchEnd(line, i) > 0}
    IN  IF starts = {} THEN None
        ELSE LET i == CHOOSE x \in starts : \A y \in starts : x <= y
             IN  Some(SubSeq(line, i, MatchEnd(line, i) - 1))

\* line 234
SearchAum(line) == SearchFirst(line, AumMatchEnd)

Months == {"jan", "feb", "mar", "apr", "may", "jun", "jul", "aug", "sep", "oct",
           "nov", "dec"}

\* the position after \d{1,2} at i when the next character may follow it,
\* or 0: two digits cannot be given back, what follows one digit less is a digit
DayEnd(s, i) ==
    IF ~IsDigit(s, i) THEN 0
    ELSE IF IsDigit(s, i + 1) THEN (IF IsDigit(s, i + 2) THEN 0 ELSE i + 2)
    ELSE i + 1

\* the position after \d{2,4} at i, or 0
YearEnd(s, i) ==
    LET n == SkipDigits(s, i) - i
    IN  IF n < 2 THEN 0 ELSE IF n > 4 THEN i + 4 ELSE i + n

\* \d{1,2}\s+(jan|...|dec)[a-z]*\s+\d{2,4} at i
DateWordsEnd(s, i) ==
    LET d == DayEnd(s, i)
        m == SkipSpace(s, d)
        l == SkipLetters(s, m + 3)
        y == SkipSpace(s, l)
    IN  IF d = 0 \/ m = d THEN 0
        ELSE IF ~(\E mo \in Months : StartsWithAtNoCase(s, m, mo)) THEN 0
        ELSE IF y = l THEN 0
        ELSE YearEnd(s, y)

IsDateSep(s, i) == i >= 1 /\ i <= Len(s) /\ Ch(s, i) \in {"-", "/"}

\* \d{1,2}[-/]\d{1,2}[-/]\d{2,4} at i
DateNumbersEnd(s, i) ==
    LET d == DayEnd(s, i)
        m == IF d = 0 \/ ~IsDateSep(s, d) THEN 0 ELSE DayEnd(s, d + 1)
    IN  IF m = 0 \/ ~IsDateSep(s, m) THEN 0 ELSE YearEnd(s, m + 1)

\* the two alternatives of the pattern of line 259, the first one first
DateMatchEnd(s, i) ==
    IF DateWordsEnd(s, i) > 0 THEN DateWordsEnd(s, i) ELSE DateNumbersEnd(s, i)

\* line 259
SearchDate(line) == SearchFirst(line, DateMatchEnd)

\* line.split(":", 1)[1].strip() when the line has a colon, else line.strip()
AfterColon(line) ==
    IF Contains(line, ":")
    THEN Strip(SubSeq(line, Len(Split(line, ":")[1]) + 2, Len(line)))
    ELSE Strip(line)

\* line 211-218
EmptyMetadata ==
    [fund_name |-> NA, aum |-> NA, benchmark |-> NA, additional_benchmark |-> NA,
     fund_manager |-> NA, launch_date |-> NA]

\* a skip list without "mutual fund:"
IsSkippedShortList(low) == AnyIn({"disclaimer", "page |"}, low)

\* line 227
IsSkipped(low) == AnyIn({"disclaimer", "page |", "mutual fund:"}, low)

\* lines 230-231
SetFundName(md, line) ==
    IF md.fund_name = NA /\ MatchesFundName(line)
    THEN [md EXCEPT !.fund_name = line]
    ELSE md

\* lines 233-236
SetAum(md, line, low) ==
    IF /\ md.aum = NA
       /\ (Contains(low, "aum") \/ Contains(low, "assets under management"))
       /\ SearchAum(line) # None
    THEN [md EXCEPT !.aum = SearchAum(line)[1]]
    ELSE md

\* a benchmark rule that does not look for "additional"
SetBenchmarkNoAdditional(md, line, low) ==
    IF Contains(low, "benchmark") /\ md.benchmark = NA
    THEN [md EXCEPT !.benchmark = AfterColon(line)]
    ELSE md

\* lines 238-250
SetBenchmark(md, line, low) ==
    IF ~Contains(low, "benchmark") THEN md
    ELSE IF Contains(low, "additional")
    THEN (IF md.additional_benchmark = NA
          THEN [md EXCEPT !.additional_benchmark = AfterColon(line)]
          ELSE md)
    ELSE (IF md.benchmark = NA
          THEN [md EXCEPT !.benchmark = AfterColon(line)]
          ELSE md)

\* lines 252-256
SetFundManager(md, line, low) ==
    IF Contains(low, "fund manager") /\ md.fund_manager = NA
    THEN [md EXCEPT !.fund_manager = AfterColon(line)]
    ELSE md

\* lines 258-261
SetLaunchDate(md, line, low) ==
    IF /\ (Contains(low, "launch") \/ Contains(low, "inception"))
       /\ md.launch_date = NA
       /\ SearchDate(line) # None
    THEN [md EXCEPT !.launch_date = SearchDate(line)[1]]
    ELSE md

\* lines 229-261: the five rules, one after the other
ApplyRules(md, line, low) ==
    SetLaunchDate(
        SetFundManager(
            SetBenchmark(SetAum(SetFundName(md, line), line, low), line, low),
            line, low),
        line, low)

\* the loop body of lines 225-261 on one line
OnMetadataLine(md, line) ==
    LET low == Lower(line)
    IN  IF IsSkipped(low) THEN md ELSE ApplyRules(md, line, low)

\* page.extract_text() or ""
TextOrEmpty(opt) == IF opt = None THEN "" ELSE opt[1]

\* line 223: lines = [ln.strip() for ln in text.split("\n") if ln.strip()]
MetadataLines(text) ==
    LET ls == Split(text, "\n") IN NonEmpty([i \in 1..Len(ls) |-> Strip(ls[i])])

RECURSIVE MetadataFold(_, _)
MetadataFold(md, ls) ==
    IF ls = <<>> THEN md ELSE MetadataFold(OnMetadataLine(md, ls[1]), Tail(ls))

\* the whole function on the page texts of a document
RECURSIVE MetadataOfPages(_, _)
MetadataOfPages(md, pages) ==
    IF pages = <<>> THEN md
    ELSE MetadataOfPages(MetadataFold(md, MetadataLines(TextOrEmpty(pages[1]))),
                         Tail(pages))

extract_metadata(pages) == MetadataOfPages(EmptyMetadata, pages)

\* ----------------------------------------------- inputs of the extractor
MaxDocLines == 2

MetadataLineChoices ==
    {"HDFC TOP FUND AUM 500 cr",
     "ABC SCHEME Assets Under Management: 1,234.5 Crore",
     "Benchmark: Nifty 50 TRI",
     "Benchmark: N/A",
     "Additional Benchmark: Nifty 500",
     " Additional benchmark BSE 100",
     "Fund Manager: Jane Doe Launch Date: 15 Jan 2020",
     "Inception 01/02/2019 Fund Manager John",
     "Disclaimer: Benchmark: none",
     "Page | 2 AUM 10 cr",
     "XYZ MUTUAL FUND: Fund Manager: A"}

\* what page.extract_text() gives for a page of these lines
PageText(ls) == IF ls = <<>> THEN None ELSE Some(Join("\n", ls))

\* documents of two pages: a list of lines cut at any place
Documents ==
    UNION {{<<PageText(SubSeq(ls, 1, k)), PageText(SubSeq(ls, k + 1, Len(ls)))>> :
               k \in 0..Len(ls)} :
           ls \in UNION {[1..n -> MetadataLineChoices] : n \in 0..MaxDocLines}}

MetaIdle ==
    /\ md_pc = "idle" /\ md_pages = <<>> /\ md_p = 0 /\ md_lines = <<>> /\ md_i = 0
    /\ metadata = EmptyMetadata

MetaInit ==
    /\ md_pc = "pages"
    /\ md_pages \in Documents
    /\ md_p = 0 /\ md_lines = <<>> /\ md_i = 0
    /\ metadata = EmptyMetadata

\* lines 221-223: the next page, its text and its lines
MetaNextPage ==
    /\ md_pc = "pages" /\ md_i >= Len(md_lines) /\ md_p < Len(md_pages)
    /\ md_p' = md_p + 1
    /\ md_lines' = MetadataLines(TextOrEmpty(md_pages[md_p + 1]))
    /\ md_i' = 0
    /\ UNCHANGED <<md_pc, md_pages, metadata>>
    /\ UNCHANGED md_others

\* lines 225-228: a line of the skip list
MetaSkipLine ==
    /\ md_pc = "pages" /\ md_i < Len(md_lines)
    /\ IsSkipped(Lower(md_lines[md_i + 1])) = TRUE
    /\ md_i' = md_i + 1
    /\ UNCHANGED <<md_pc, md_pages, md_p, md_lines, metadata>>
    /\ UNCHANGED md_others

\* lines 229-261: the five rules on one line
MetaLine ==
    /\ md_pc = "pages" /\ md_i < Len(md_lines)
    /\ IsSkipped(Lower(md_lines[md_i + 1])) = FALSE
    /\ metadata' = OnMetadataLine(metadata, md_lines[md_i + 1])
    /\ md_i' = md_i + 1
    /\ UNCHANGED <<md_pc, md_pages, md_p, md_lines>>
    /\ UNCHANGED md_others

\* line 263
MetaReturn ==
    /\ md_pc = "pages" /\ md_i >= Len(md_lines) /\ md_p >= Len(md_pages)
    /\ md_pc' = "done"
    /\ UNCHANGED <<md_pages, md_p, md_lines, md_i, metadata>>
    /\ UNCHANGED md_others

MetaNext == MetaNextPage \/ MetaSkipLine \/ MetaLine \/ MetaReturn


\* ------------------------------------------- claims: extract_metadata
C_Fields ==
    {"fund_name", "aum", "benchmark", "additional_benchmark", "fund_manager",
     "launch_date"}

\* the non-blank, stripped lines of a document, in document order
RECURSIVE C_DocLines(_)
C_DocLines(pages) ==
    IF pages = <<>> THEN <<>>
    ELSE MetadataLines(TextOrEmpty(pages[1])) \o C_DocLines(Tail(pages))

\* what the rule of field f captures from a line, None when the line is
\* skipped or does not match the rule
C_Capture(f, line) ==
    LET low == Lower(line)
    IN  IF AnyIn({"disclaimer", "page |", "mutual fund:"}, low) THEN None
        ELSE CASE f = "fund_name" ->
                    IF MatchesFundName(line) THEN Some(line) ELSE None
               [] f = "aum" ->
                    IF Contains(low, "aum") \/ Contains(low, "assets under management")
                    THEN SearchAum(line) ELSE None
               [] f = "benchmark" ->
                    IF Contains(low, "benchmark") /\ ~Contains(low, "additional")
                    THEN Some(AfterColon(line)) ELSE None
               [] f = "additional_benchmark" ->
                    IF Contains(low, "benchmark") /\ Contains(low, "additional")
                    THEN Some(AfterColon(line)) ELSE None
               [] f = "fund_manager" ->
                    IF Contains(low, "fund manager") THEN Some(AfterColon(line)) ELSE None
               [] f = "launch_date" ->
                    IF Contains(low, "launch") \/ Contains(low, "inception")
                    THEN SearchDate(line) ELSE None

\* the value of the first line of ls that matches the rule of f, "N/A" when
\* no line does
C4_FirstMatch(f, ls) ==
    LET hits == {i \in 1..Len(ls) : C_Capture(f, ls[i]) # None}
    IN  IF hits = {} THEN NA
        ELSE C_Capture(f, ls[CHOOSE i \in hits : \A j \in hits : i <= j])[1]

\* C4: for each of the six fields, once the field holds a value other than
\* "N/A" no later line changes it, and the value kept when the scan ends is
\* the one of the first matching line in document order.
C4_FirstMatchKept ==
    [][/\ \A f \in C_Fields : metadata[f] # NA => metadata'[f] = metadata[f]
       /\ md_pc' = "done" =>
             \A f \in C_Fields : metadata'[f] = C4_FirstMatch(f, C_DocLines(md_pages'))]_vars


\* the line the scan is about to read, and whether this step reads it
C_MetaLineRead == md_pc = "pages" /\ md_i < Len(md_lines) /\ md_i' = md_i + 1

C_ThisLine == md_lines[md_i + 1]

\* the text after the first colon of a line, trimmed; the trimmed line when
\* it has no colon
C11_Value(line) ==
    LET colons == {i \in 1..Len(line) : SubSeq(line, i, i) = ":"}
    IN  IF colons = {} THEN Strip(line)
        ELSE Strip(SubSeq(line, (CHOOSE i \in colons : \A j \in colons : i <= j) + 1,
                          Len(line)))

\* what a write "only if still N/A" leaves in a field
C11_WriteOnce(old, value) == IF old = NA THEN value ELSE old

C11_Step ==
    (/\ C_MetaLineRead
     /\ ~AnyIn({"disclaimer", "page |", "mutual fund:"}, Lower(C_ThisLine))
     /\ Contains(Lower(C_ThisLine), "benchmark"))
    => IF Contains(Lower(C_ThisLine), "additional")
       THEN /\ metadata'.benchmark = metadata.benchmark
            /\ metadata'.additional_benchmark =
                  C11_WriteOnce(metadata.additional_benchmark, C11_Value(C_ThisLine))
       ELSE /\ metadata'.additional_benchmark = metadata.additional_benchmark
            /\ metadata'.benchmark =
                  C11_WriteOnce(metadata.benchmark, C11_Value(C_ThisLine))

C11_Scenario == <<"Benchmark: Nifty 50 TRI", "Additional Benchmark: Nifty 500">>

\* the scenario's two lines stand in the document in this order and no line
\* before the second one is another benchmark line
C11_ScenarioRead ==
    /\ md_pc = "done"
    /\ \E n \in 0..(Len(C_DocLines(md_pages)) - 2) :
          /\ SubSeq(C_DocLines(md_pages), n + 1, n + 2) = C11_Scenario
          /\ \A j \in 1..n : ~Contains(Lower(C_DocLines(md_pages)[j]), "benchmark")

\* C11: a non-skipped line containing "benchmark" writes at most one of the
\* two benchmark fields: additional_benchmark when it also contains
\* "additional", benchmark otherwise, each only if still "N/A", the value
\* being the text after the first colon; "Benchmark: Nifty 50 TRI" followed
\* by "Additional Benchmark: Nifty 500" gives benchmark "Nifty 50 TRI" and
\* additional_benchmark "Nifty 500".
C11_BenchmarkFields ==
    /\ [][C11_Step]_vars
    /\ [](C11_ScenarioRead =>
             /\ metadata.benchmark = "Nifty 50 TRI"
             /\ metadata.additional_benchmark = "Nifty 500")

\* the scan of a document with the scenario's lines has ended with both
\* fields filled from them
C11_Witness ==
    /\ C11_ScenarioRead
    /\ metadata.benchmark = "Nifty 50 TRI"
    /\ metadata.additional_benchmark = "Nifty 500"


C12_SkipPhrases == {"disclaimer", "page |", "mutual fund:"}

\* C12: a line that contains "disclaimer", "page |" or "mutual fund:" in any
\* letter case leaves all six metadata fields unchanged, also when the line
\* would otherwise match one or more field rules.
C12_SkippedLineChangesNothing ==
    [][(C_MetaLineRead /\ AnyIn(C12_SkipPhrases, Lower(C_ThisLine)))
       => \A f \in C_Fields : metadata'[f] = metadata[f]]_vars

\* the line just read holds the skip phrase p and the field rules would have
\* written a field had they been applied to it
C12_SkippedWouldMatch(p) ==
    /\ md_pc = "pages" /\ md_i >= 1
    /\ Contains(Lower(md_lines[md_i]), p)
    /\ ApplyRules(metadata, md_lines[md_i], Lower(md_lines[md_i])) # metadata

\* a line with "MUTUAL FUND:" in upper case, which matches the fund_name and
\* the fund_manager rules, has been read and skipped
C12_Witness == C12_SkippedWouldMatch("mutual fund:")


\* ----------------------------------------------------- parse_pdf_to_json
\* A page of the PDF is what the libraries answer for it:
\*   text          page.extract_text(): None or Some(str)
\*   tables_raise  whether pl_page.extract_tables() raises
\*   raw_tables    what it returns otherwise (a cell is None or Some(str))
\*   images_raise  whether doc.load_page / page.get_images raises
\*   images        the images of the page: pixmap_ok tells whether
\*                 fitz.Pixmap(doc, xref) and pix.save succeed, ocr is what
\*                 pytesseract reads from the saved file (None: it raises)

\* line 31: "" if c is None else str(c).strip()
CleanCell(c) == IF c = None THEN "" ELSE Strip(c[1])

CleanRow(row) == [j \in 1..Len(row) |-> CleanCell(row[j])]

RowHasText(r) == \E j \in 1..Len(r) : r[j] # ""

\* lines 31-33
CleanTable(tbl) == SelectSeq([i \in 1..Len(tbl) |-> CleanRow(tbl[i])], RowHasText)

IsNonEmptyTable(t) == t # <<>>

\* lines 25-38
extract_tables_from_page(pl_page) ==
    IF pl_page.tables_raise THEN <<>>
    ELSE SelectSeq([i \in 1..Len(pl_page.raw_tables) |-> CleanTable(pl_page.raw_tables[i])],
                   IsNonEmptyTable)

DecimalDigits == "0123456789"

\* str(n) for n >= 0
RECURSIVE Dec(_)
Dec(n) ==
    IF n < 10 THEN Ch(DecimalDigits, n + 1)
    ELSE Dec(n \div 10) \o Ch(DecimalDigits, (n % 10) + 1)

\* lines 51-52, with images_dir = "images"
ImagePath(page_index, img_idx) ==
    "images/page_" \o Dec(page_index + 1) \o "_img_" \o Dec(img_idx) \o ".png"

\* lines 49-61: the images whose pixmap could be saved
RECURSIVE ImageResults(_, _, _)
ImageResults(images, page_index, img_idx) ==
    IF img_idx > Len(images) THEN <<>>
    ELSE (IF images[img_idx].pixmap_ok
          THEN <<[image_path |-> ImagePath(page_index, img_idx),
                  page_index |-> page_index + 1,
                  ocr |-> images[img_idx].ocr]>>
          ELSE <<>>)
         \o ImageResults(images, page_index, img_idx + 1)

\* lines 41-62, for a page whose image list can be read
extract_images_with_pymupdf(page, page_index) == ImageResults(page.images, page_index, 1)

\* lines 65-72: of the text the OCR engine reads (None: it raises)
ocr_image(ocr) == IF ocr = None THEN "" ELSE clean_text(ocr[1])

\* lines 272-279
EmptySections ==
    [portfolio |-> <<>>, scheme_performance |-> <<>>, allocation |-> <<>>,
     risk |-> <<>>, macro |-> <<>>, debt_portfolio |-> <<>>]

\* a page number that counts from 0
PageNoFromZero(i) == i

\* line 289
PageNo(i) == i + 1

\* lines 300-304
SectionEntry(page_no, tbl, section_name) ==
    [page |-> page_no, table_data |-> tbl, section_name |-> section_name]

\* lines 305-309
TableEntry(tbl, section_name) ==
    [type |-> "table", section |-> section_name, table_data |-> tbl]

\* lines 314-318
ChartEntry(img_meta, ocr_on) ==
    [type |-> "chart", image |-> img_meta.image_path,
     description |-> IF ocr_on THEN Some(ocr_image(img_meta.ocr)) ELSE None]

\* a loop body that keeps only the classified tables in the page content
AddTableClassifiedOnly(acc, tbl, page_no) ==
    LET c == classify_table(tbl)
    IN  IF Truthy(c[1])
        THEN [sections |-> [acc.sections EXCEPT
                               ![c[1][1]] = Append(@, SectionEntry(page_no, tbl, c[2]))],
              content |-> Append(acc.content, TableEntry(tbl, c[2]))]
        ELSE acc

\* a loop body that puts a classified table at the head of its category list
AddTableAtHead(acc, tbl, page_no) ==
    LET c == classify_table(tbl)
    IN  [sections |-> IF Truthy(c[1])
                      THEN [acc.sections EXCEPT
                               ![c[1][1]] = <<SectionEntry(page_no, tbl, c[2])>> \o @]
                      ELSE acc.sections,
         content |-> Append(acc.content, TableEntry(tbl, c[2]))]

\* lines 298-309: one table, on the sections map and the page content so far
AddTable(acc, tbl, page_no) ==
    LET c == classify_table(tbl)
    IN  [sections |-> IF Truthy(c[1])
                      THEN [acc.sections EXCEPT
                               ![c[1][1]] = Append(@, SectionEntry(page_no, tbl, c[2]))]
                      ELSE acc.sections,
         content |-> Append(acc.content, TableEntry(tbl, c[2]))]

\* lines 297-309
RECURSIVE AddTables(_, _, _)
AddTables(acc, tables, page_no) ==
    IF tables = <<>> THEN acc
    ELSE AddTables(AddTable(acc, tables[1], page_no), Tail(tables), page_no)

\* a page loop body whose segmentation starts under the section that was
\* current when the page before ended
ProcessPageCarrySection(res, pl_page, i, ocr_on) ==
    LET page_no == PageNo(i)
        before == IF res.pages = <<>> THEN <<>>
                  ELSE SelectSeq(res.pages[Len(res.pages)].content,
                                 LAMBDA e : e.type = "paragraph")
        carried == IF before = <<>> THEN None ELSE before[Len(before)].section
        text == TextOrEmpty(pl_page.text)
        sections == IF text = "" THEN <<>>
                    ELSE OnEnd(SegFold(SegState(carried, None, <<>>, <<>>),
                                       TextLines(text))).result
        acc == AddTables([sections |-> res.sections, content |-> sections],
                         extract_tables_from_page(pl_page), page_no)
        images_meta == extract_images_with_pymupdf(pl_page, i)
        charts == [k \in 1..Len(images_meta) |-> ChartEntry(images_meta[k], ocr_on)]
    IN  [res EXCEPT
            !.sections = acc.sections,
            !.pages = Append(@, [page_number |-> page_no,
                                 content |-> acc.content \o charts])]

\* lines 289-320: one iteration of the page loop, for a page whose image
\* list can be read
ProcessPage(res, pl_page, i, ocr_on) ==
    LET page_no == PageNo(i)
        sections == detect_sections_from_text(TextOrEmpty(pl_page.text))
        acc == AddTables([sections |-> res.sections, content |-> sections],
                         extract_tables_from_page(pl_page), page_no)
        images_meta == extract_images_with_pymupdf(pl_page, i)
        charts == [k \in 1..Len(images_meta) |-> ChartEntry(images_meta[k], ocr_on)]
    IN  [res EXCEPT
            !.sections = acc.sections,
            !.pages = Append(@, [page_number |-> page_no,
                                 content |-> acc.content \o charts])]

\* lines 289-309 of an iteration that line 311 ends with an exception: the
\* tables of the page are in the sections map, the page entry is not appended
ProcessPageUntilImages(res, pl_page, i) ==
    LET sections == detect_sections_from_text(TextOrEmpty(pl_page.text))
        acc == AddTables([sections |-> res.sections, content |-> sections],
                         extract_tables_from_page(pl_page), PageNo(i))
    IN  [res EXCEPT !.sections = acc.sections]

\* ----------------------------------------------- inputs of the assembler
MaxPages == 2

PageTexts ==
    {None, Some("SUMMARY\nAlpha line"), Some("Benchmark: Nifty 50 TRI\nBeta line")}

RawHoldings == <<<<Some(" Company "), Some("% to Net Assets")>>,
                 <<None, Some("  ")>>,
                 <<Some("Acme"), Some("4.2")>>>>

RawHoldingsB == <<<<Some("Issuer"), Some("Weight")>>, <<Some("Bolt"), None>>>>

RawUnclassified == <<<<Some("Sr"), Some("Unrelated"), Some("Stuff")>>>>

RawRisk == <<<<Some("Sharpe"), Some("Beta")>>, <<Some("1.1"), Some("0.9")>>>>

RawBlank == <<<<None, Some(" ")>>>>

TableAnswers ==
    {[tables_raise |-> FALSE, raw_tables |-> <<RawHoldings, RawUnclassified, RawHoldingsB>>],
     [tables_raise |-> FALSE, raw_tables |-> <<RawBlank, RawRisk, RawHoldings>>],
     [tables_raise |-> TRUE, raw_tables |-> <<RawHoldings>>]}

ImageAnswers ==
    {[images_raise |-> FALSE, images |-> <<>>],
     [images_raise |-> FALSE,
      images |-> <<[pixmap_ok |-> FALSE, ocr |-> None],
                   [pixmap_ok |-> TRUE, ocr |-> Some(" Chart \n one ")]>>],
     [images_raise |-> TRUE, images |-> <<[pixmap_ok |-> TRUE, ocr |-> None]>>]}

PdfPages ==
    {[text |-> t, tables_raise |-> ta.tables_raise, raw_tables |-> ta.raw_tables,
      images_raise |-> im.images_raise, images |-> im.images] :
        t \in PageTexts, ta \in TableAnswers, im \in ImageAnswers}

Pdfs == UNION {[1..n -> PdfPages] : n \in 1..MaxPages}

ParseIdle ==
    /\ pj_pc = "idle" /\ plpdf_pages = <<>> /\ do_ocr = FALSE /\ pj_i = 0
    /\ result = [metadata |-> EmptyMetadata, sections |-> EmptySections, pages |-> <<>>]
    /\ pj_output = None

ParseInit ==
    /\ pj_pc = "start"
    /\ plpdf_pages \in Pdfs
    /\ do_ocr \in BOOLEAN
    /\ pj_i = 0
    /\ result = [metadata |-> EmptyMetadata, sections |-> EmptySections, pages |-> <<>>]
    /\ pj_output = None

\* lines 267-286: the metadata pass and the empty result
ParseStart ==
    /\ pj_pc = "start"
    /\ result' = [metadata |-> extract_metadata([k \in 1..Len(plpdf_pages) |->
                                                    plpdf_pages[k].text]),
                  sections |-> EmptySections,
                  pages |-> <<>>]
    /\ pj_pc' = "pages"
    /\ UNCHANGED <<plpdf_pages, do_ocr, pj_i, pj_output>>
    /\ UNCHANGED pj_others

\* lines 288-320: one page
ParsePage ==
    /\ pj_pc = "pages" /\ pj_i < Len(plpdf_pages)
    /\ ~plpdf_pages[pj_i + 1].images_raise
    /\ result' = ProcessPage(result, plpdf_pages[pj_i + 1], pj_i, do_ocr)
    /\ pj_i' = pj_i + 1
    /\ UNCHANGED <<pj_pc, plpdf_pages, do_ocr, pj_output>>
    /\ UNCHANGED pj_others

\* lines 288-311 and 43-44: load_page or get_images raises, nothing catches
\* it, and the exception leaves parse_pdf_to_json
ParsePageRaises ==
    /\ pj_pc = "pages" /\ pj_i < Len(plpdf_pages)
    /\ plpdf_pages[pj_i + 1].images_raise
    /\ result' = ProcessPageUntilImages(result, plpdf_pages[pj_i + 1], pj_i)
    /\ pj_pc' = "raised"
    /\ UNCHANGED <<plpdf_pages, do_ocr, pj_i, pj_output>>
    /\ UNCHANGED pj_others

\* lines 322-331: the result is written to output_json
ParseWrite ==
    /\ pj_pc = "pages" /\ pj_i >= Len(plpdf_pages)
    /\ pj_output' = Some(result)
    /\ pj_pc' = "done"
    /\ UNCHANGED <<plpdf_pages, do_ocr, pj_i, result>>
    /\ UNCHANGED pj_others

Next == ParseStart \/ ParsePage \/ ParsePageRaises \/ ParseWrite


\* ------------------------------------------ claims: parse_pdf_to_json
C_Categories ==
    {"portfolio", "scheme_performance", "allocation", "risk", "macro", "debt_portfolio"}

C_IsTable(e) == e.type = "table"

C_IsParagraph(e) == e.type = "paragraph"

\* the tables that extraction gives for input page k
C_Extracted(k) == extract_tables_from_page(plpdf_pages[k])

\* the table_data of the table entries of a content list, in order
C_TableData(content) ==
    LET es == SelectSeq(content, C_IsTable) IN [j \in 1..Len(es) |-> es[j].table_data]

\* how often the table tbl of page k stands in the list entries
C8_InSection(entries, k, tbl) ==
    Cardinality({j \in 1..Len(entries) :
                    entries[j].page = k /\ entries[j].table_data = tbl})

\* how often the table tbl stands in the list of extracted tables ext
C8_Extractions(ext, tbl) == Cardinality({j \in 1..Len(ext) : ext[j] = tbl})

C8_PageHolds(doc, k) ==
    LET ext == C_Extracted(k)
    IN  /\ C_TableData(doc.pages[k].content) = ext
        /\ \A j \in 1..Len(ext) :
              LET category == classify_table(ext[j])[1]
              IN  \A c \in C_Categories :
                     C8_InSection(doc.sections[c], k, ext[j]) =
                        IF category = Some(c) THEN C8_Extractions(ext, ext[j]) ELSE 0

C8_Holds(doc) ==
    /\ \A k \in 1..Len(doc.pages) : C8_PageHolds(doc, k)
    /\ \A c \in C_Categories : \A j \in 1..Len(doc.sections[c]) :
          /\ doc.sections[c][j].page \in 1..Len(doc.pages)
          /\ \E i \in 1..Len(doc.pages[doc.sections[c][j].page].content) :
                /\ doc.pages[doc.sections[c][j].page].content[i].type = "table"
                /\ doc.pages[doc.sections[c][j].page].content[i].table_data
                      = doc.sections[c][j].table_data

\* C8: in the document built, the table entries of a page's content are the
\* tables extracted from that page, each once; a classified table stands in
\* addition once in sections[category] for its own category and in no other
\* list; an unclassified table stands in no sections list; the lists hold
\* nothing but tables of the content of their page.  The document written
\* is the document built.
C8_TablePlacement ==
    /\ pj_pc \in {"pages", "done"} => C8_Holds(result)
    /\ pj_output # None => pj_output = Some(result)

\* a written two-page document with classified tables on both pages, the same
\* table on both, and an unclassified table in the content of page 1
C8_Witness ==
    /\ pj_pc = "done" /\ pj_output # None
    /\ Len(pj_output[1].pages) = 2
    /\ Len(pj_output[1].sections.portfolio) = 3
    /\ Len(pj_output[1].sections.risk) = 1
    /\ \E j \in 1..Len(pj_output[1].pages[1].content) :
          /\ pj_output[1].pages[1].content[j].type = "table"
          /\ pj_output[1].pages[1].content[j].section = None

C9_Holds(pages) ==
    /\ \A k \in 1..Len(pages) :
          /\ pages[k].page_number = k
          /\ SelectSeq(pages[k].content, C_IsParagraph)
                = detect_sections_from_text(TextOrEmpty(plpdf_pages[k].text))
    /\ \A k \in 1..(Len(pages) - 1) : pages[k].page_number < pages[k + 1].page_number

\* C9: the pages list has one entry per input page, in input order (entry k
\* holds the paragraphs of input page k), with page_number k counted from 1
\* and strictly increasing; while the loop runs the list is that for the
\* pages done so far.
C9_PageOrder ==
    /\ Len(result.pages) = pj_i
    /\ C9_Holds(result.pages)
    /\ pj_pc = "done" =>
          /\ Len(result.pages) = Len(plpdf_pages)
          /\ pj_output # None
          /\ pj_output[1].pages = result.pages

\* a written document of two pages with different texts
C9_Witness ==
    /\ pj_pc = "done" /\ pj_output # None
    /\ Len(plpdf_pages) = 2
    /\ plpdf_pages[1].text = Some("Benchmark: Nifty 50 TRI\nBeta line")
    /\ plpdf_pages[2].text = Some("SUMMARY\nAlpha line")
    /\ pj_output[1].pages[2].page_number = 2
    /\ pj_output[1].pages[1].content # pj_output[1].pages[2].content

\* C10: a failure of the extraction libraries on the tables or the images of
\* a page never stops the run: the run ends with the document written, one
\* entry per page, each holding the paragraphs of its page's text.
C10_FailuresIsolated ==
    /\ pj_pc # "raised"
    /\ pj_pc = "done" =>
          /\ pj_output # None
          /\ Len(pj_output[1].pages) = Len(plpdf_pages)
          /\ \A k \in 1..Len(plpdf_pages) :
                SelectSeq(pj_output[1].pages[k].content, C_IsParagraph)
                    = detect_sections_from_text(TextOrEmpty(plpdf_pages[k].text))


\* the text of input page k and the Paragraph Records of entry k
C14_Text(k) == TextOrEmpty(plpdf_pages[k].text)

C14_Paragraphs(k) == SelectSeq(result.pages[k].content, C_IsParagraph)

\* the section names and the subsection headings that the lines of a text
\* can give
C14_SectionsOf(text) ==
    {Strip(Remove(C_Lines(text)[i], "#")) :
        i \in {j \in 1..Len(C_Lines(text)) : C_IsMain(C_Lines(text)[j])}}

C14_SubsectionsOf(text) ==
    {C_Lines(text)[i] : i \in {j \in 1..Len(C_Lines(text)) : C_IsSub(C_Lines(text)[j])}}

\* C14: the Paragraph Records of pages[k].content are a function of page k's
\* text alone: they are what segmentation gives for that text by itself,
\* whatever the other pages, the tables, the images and the options are; the
\* section and sub_section of each record are headings of page k's own text;
\* two pages with identical text have identical Paragraph Records.
C14_PageScoped ==
    /\ \A k \in 1..Len(result.pages) :
          /\ C14_Paragraphs(k) = detect_sections_from_text(C14_Text(k))
          /\ \A r \in 1..Len(C14_Paragraphs(k)) :
                /\ C14_Paragraphs(k)[r].section # None
                /\ C14_Paragraphs(k)[r].section[1] \in C14_SectionsOf(C14_Text(k))
                /\ C14_Paragraphs(k)[r].sub_section # None =>
                      C14_Paragraphs(k)[r].sub_section[1]
                          \in C14_SubsectionsOf(C14_Text(k))
    /\ \A j, k \in 1..Len(result.pages) :
          C14_Text(j) = C14_Text(k) => C14_Paragraphs(j) = C14_Paragraphs(k)

\* page 1 ends under the section SUMMARY, page 2 has a subsection heading
\* and a body line but no main heading, and page 2 has no Paragraph Record
C14_Witness ==
    /\ pj_pc = "done"
    /\ Len(result.pages) = 2
    /\ plpdf_pages[1].text = Some("SUMMARY\nAlpha line")
    /\ plpdf_pages[2].text = Some("Benchmark: Nifty 50 TRI\nBeta line")
    /\ C14_Paragraphs(1) # <<>>
    /\ C14_Paragraphs(2) = <<>>


C_IsChart(e) == e.type = "chart"

\* the image entries of the pages of a document
C15_Charts(doc) ==
    UNION {{doc.pages[k].content[j] :
               j \in {n \in 1..Len(doc.pages[k].content) :
                         C_IsChart(doc.pages[k].content[n])}} :
           k \in 1..Len(doc.pages)}

\* C15: the core never populates the description of an image content entry:
\* in every run, with do_ocr on or off, the description of each image entry
\* of the pages built and of the document written is null.
C15_DescriptionNotPopulated ==
    /\ \A e \in C15_Charts(result) : e.description = None
    /\ pj_output # None => \A e \in C15_Charts(pj_output[1]) : e.description = None

\* without do_ocr every description is null
C15_NullWithoutOcr ==
    ~do_ocr => \A e \in C15_Charts(result) : e.description = None


\* the tables of each category among the tables of a list, in list order
RECURSIVE C16_ByCategory(_)
C16_ByCategory(tables) ==
    IF tables = <<>> THEN [c \in C_Categories |-> <<>>]
    ELSE LET category == classify_table(tables[1])[1]
             rest == C16_ByCategory(Tail(tables))
         IN  [c \in C_Categories |->
                 IF category = Some(c) THEN <<tables[1]>> \o rest[c] ELSE rest[c]]

\* the tables that the list entries holds for page k, in list order
C16_ListedOf(entries, k) ==
    LET es == SelectSeq(entries, LAMBDA e : e.page = k)
    IN  [j \in 1..Len(es) |-> es[j].table_data]

C16_PageOrdered(doc, k) ==
    LET expected == C16_ByCategory(C_Extracted(k))
    IN  \A c \in C_Categories : C16_ListedOf(doc.sections[c], k) = expected[c]

C16_Ordered(doc) ==
    /\ \A c \in C_Categories : \A j \in 1..(Len(doc.sections[c]) - 1) :
          doc.sections[c][j].page <= doc.sections[c][j + 1].page
    /\ \A k \in 1..Len(doc.pages) : C16_PageOrdered(doc, k)

\* C16: for every category, sections[category] holds its tables in document
\* order: the page numbers of consecutive entries never decrease, and the
\* tables of one page stand in their extraction order; the lists written are
\* the lists built.
C16_SectionsInDocumentOrder ==
    /\ pj_pc \in {"pages", "done"} => C16_Ordered(result)
    /\ pj_output # None => pj_output[1].sections = result.sections

\* a written document whose portfolio list holds two different tables of
\* page 1 and then a table of page 2
C16_Witness ==
    /\ pj_pc = "done" /\ pj_output # None
    /\ Len(pj_output[1].sections.portfolio) = 3
    /\ pj_output[1].sections.portfolio[1].page = 1
    /\ pj_output[1].sections.portfolio[2].page = 1
    /\ pj_output[1].sections.portfolio[3].page = 2
    /\ pj_output[1].sections.portfolio[1].table_data
          # pj_output[1].sections.portfolio[2].table_data


\* ------------------------------------------------------ specifications
ClassifyIdle ==
    /\ ct_pc = "idle" /\ ct_table = <<>> /\ ct_result = <<None, None>>
    /\ ct_table2 = <<>> /\ ct_result2 = <<None, None>>

\* calls of classify_table
InitClassify == ClassifyInit /\ SegIdle /\ MetaIdle /\ ParseIdle

SpecClassify == InitClassify /\ [][ClassifyNext]_vars

\* one call of detect_sections_from_text, line by line
InitSegment == SegInit /\ ClassifyIdle /\ MetaIdle /\ ParseIdle

SpecSegment == InitSegment /\ [][SegNext]_vars

\* one call of extract_metadata, line by line
InitMetadata == MetaInit /\ ClassifyIdle /\ SegIdle /\ ParseIdle

SpecMetadata == InitMetadata /\ [][MetaNext]_vars

\* one run of parse_pdf_to_json, page by page
Init == ParseInit /\ ClassifyIdle /\ SegIdle /\ MetaIdle

Spec == Init /\ [][Next]_vars

====
